---- MODULE Spec2Model ----
(***************************************************************************)
(* Tag game engine of src/games.ts, persistent revision (lines 219-730):   *)
(* the global `game`, the TagGame class, the /tag-game handlers, the       *)
(* message event handler, the two interval timers and the asynchronous     *)
(* file reads and writes issued by TagGame.load and TagGame.save.          *)
(*                                                                         *)
(* Every handler is one action: between its `await ack()` and its first    *)
(* `await reply(...)` / `await showHomeView(...)` a handler runs without a *)
(* suspension point, and nothing after those awaits touches `game`.        *)
(* The callbacks of fs.writeFile and fs.readFile are separate steps.       *)
(*                                                                         *)
(* For every handler an operator ...Result gives what the handler does in  *)
(* the current state: the `game` it leaves, the message it sends with      *)
(* reply(...), whether it calls TagGame.save and whether it calls          *)
(* TagGame.load.  The handler's action applies that result.                *)
(*                                                                         *)
(* Spec is the persistent revision.  SpecPlaygame is the first revision    *)
(* of the same file (lines 1-217: /playgame, /game-tag, message.channels). *)
(* SpecMembers is one call of getAllMembers of src/index.ts.               *)
(***************************************************************************)
EXTENDS Integers, Sequences, FiniteSets, TLC

\* ---------------------------------------------------------------- bounds
\* user ids that send requests
Players == {"A", "B", "C"}
\* largest value of the clock Date.now()
MaxTime == 50
\* amounts by which the clock advances between two handlers
Deltas == {24, 25}
\* largest score a tick may produce
MaxScore == 1
\* largest number of fs.writeFile calls in flight
MaxPending == 2
\* largest number of fs.readFile calls in flight
MaxReads == 1
\* largest number of TagGame.save calls in one run
MaxSaves == 3
\* largest number of members users.list returns
MaxMembers == 3

\* ------------------------------------------------------- program constants
SCORE_NON_TARGET == 1
SCORE_TARGET == -5
\* the cooldown test `timeSinceLastAction < 5` and the divisor `/ 5`
COOLDOWN == 5
TIME_UNIT == 5

\* null / undefined player id, the `game` that was never assigned, a missing
\* Map entry, a missing gameData.json and an empty tagTarget
null == "null"
NoGame == [active |-> "undefined"]
NoScore == -1000
NoFile == [exists |-> FALSE]
NoCall == [pc |-> "idle"]
Empty == ""

VARIABLES
    game,      \* the global `let game: TagGame`
    now,       \* Date.now()
    file,      \* contents of gameData.json
    writes,    \* fs.writeFile calls whose callback has not run, in issue order
    reads,     \* fs.readFile calls whose callback has not run
    saves,     \* number of TagGame.save calls so far
    stopping,  \* /playgame handlers suspended between game.stop() and
               \* `game = null`
    loaded,    \* contents of gameData.json when the fs.readFile in flight
               \* was issued (NoFile when none is in flight)
    lastSaved, \* the gameData of the most recent TagGame.save call
    listing    \* the getAllMembers call of src/index.ts in progress

vars ==
    <<game, now, file, writes, reads, saves, stopping, loaded, lastSaved,
      listing>>

\* --------------------------------------------------------------- helpers
Max(a, b) == IF a >= b THEN a ELSE b

\* Math.round in place of Math.floor
FloorDivRound(x, d) == (2 * x + d) \div (2 * d)

\* Math.floor(x / d) for integers x and d > 0
FloorDiv(x, d) == x \div d

\* Math.floor(e * TIME_MULTIPLIER_TAGGER): floor(e * 0.1), e >= 0
FloorTagger(e) == e \div 10

\* Math.floor(e * TIME_MULTIPLIER_TAGGED): floor(e * -0.1), e >= 0
FloorTagged(e) == -((e + 9) \div 10)

\* scores.get(p) || 0
GetScore(scores, p) == IF scores[p] = NoScore THEN 0 ELSE scores[p]

\* new TagGame(): field initialisers of the class
NewTagGame ==
    [players |-> {},
     scores |-> [p \in Players |-> NoScore],
     host |-> null,
     active |-> FALSE,
     target |-> null,
     lastActionTimestamp |-> now]

\* Array.from(S): the elements of a Set as an array
RECURSIVE ArrayFrom(_)
ArrayFrom(S) ==
    IF S = {}
    THEN <<>>
    ELSE LET first == CHOOSE x \in S : TRUE
         IN  <<first>> \o ArrayFrom(S \ {first})

\* Array.from(scores.entries()): the [key, value] pairs of the Map
Entries(scores) ==
    LET keys == ArrayFrom({p \in Players : scores[p] # NoScore})
    IN  [i \in 1..Len(keys) |-> <<keys[i], scores[keys[i]]>>]

\* the gameData object of TagGame.save, as JSON.stringify writes it
GameData(g) ==
    [exists |-> TRUE,
     players |-> ArrayFrom(g.players),
     scores |-> Entries(g.scores),
     target |-> g.target,
     lastActionTimestamp |-> g.lastActionTimestamp]

\* new Set(gameData.players)
SetOf(array) == {array[i] : i \in 1..Len(array)}

\* new Map(gameData.scores): the last pair of a key wins
MapOf(entries) ==
    [p \in Players |->
        LET at == {i \in 1..Len(entries) : entries[i][1] = p}
        IN  IF at = {}
            THEN NoScore
            ELSE entries[CHOOSE i \in at : \A j \in at : j <= i][2]]

\* the assignments of the fs.readFile callback, with gameData parsed from
\* the file
Restore(g, gameData) ==
    [g EXCEPT !.players = SetOf(gameData.players),
              !.scores = MapOf(gameData.scores),
              !.target = gameData.target,
              !.lastActionTimestamp = gameData.lastActionTimestamp]

\* TagGame.save: issue one fs.writeFile with the current gameData
Save(g) ==
    /\ writes' = Append(writes, GameData(g))
    /\ saves' = saves + 1
    /\ lastSaved' = GameData(g)

CanSave == Len(writes) < MaxPending /\ saves < MaxSaves

\* TagGame.load after `game = new TagGame()`: issue one fs.readFile if
\* gameData.json exists
Load ==
    /\ reads' = IF file # NoFile THEN reads + 1 ELSE reads
    /\ loaded' = IF file # NoFile THEN file ELSE loaded

CanLoad == file # NoFile => reads < MaxReads

\* what a handler does: the game it leaves, the message of its reply call
\* ("none": no reply call), whether it saves, whether it loads
Result(g, text, save, load) ==
    [game |-> g, reply |-> text, save |-> save, load |-> load]

\* a handler that only answers
Reject(text) == Result(game, text, FALSE, FALSE)

\* ------------------------------------------------------- TagGame methods
\* first revision of TagGame.start: neither target nor timestamp is set
StartFirstRevision(g, startingPlayer) ==
    [g EXCEPT !.host = startingPlayer,
              !.players = @ \cup {startingPlayer},
              !.active = TRUE]

\* TagGame.start without its trailing save
Start(g, startingPlayer) ==
    [g EXCEPT !.host = startingPlayer,
              !.players = @ \cup {startingPlayer},
              !.scores = [@ EXCEPT ![startingPlayer] =
                              IF @ = NoScore THEN 0 ELSE @],
              !.active = TRUE,
              !.target = startingPlayer,
              !.lastActionTimestamp = now]

\* first revision of TagGame.join: the score is reset to 0 on every join
JoinFirstRevision(g, player) ==
    [g EXCEPT !.players = @ \cup {player},
              !.scores = [@ EXCEPT ![player] = 0]]

\* TagGame.join without its trailing save
Join(g, player) ==
    [g EXCEPT !.players = @ \cup {player},
              !.scores = [@ EXCEPT ![player] = IF @ = NoScore THEN 0 ELSE @]]

\* TagGame.stop without its trailing save
Stop(g) ==
    [g EXCEPT !.players = {}, !.host = null, !.active = FALSE]

\* the score loop without Math.max(..., 0)
TickScoresNoFloor(g) ==
    [p \in Players |->
        IF p \in g.players
        THEN GetScore(g.scores, p)
             + (IF p = g.target THEN SCORE_TARGET ELSE SCORE_NON_TARGET)
        ELSE g.scores[p]]

\* the score loop run over every known user instead of game.players
TickScoresEveryone(g) ==
    [p \in Players |->
        Max(GetScore(g.scores, p)
            + (IF p = g.target THEN SCORE_TARGET ELSE SCORE_NON_TARGET), 0)]

\* the score loop shared by the message handler and givePoints
TickScores(g) ==
    [p \in Players |->
        IF p \in g.players
        THEN Max(GetScore(g.scores, p)
                 + (IF p = g.target THEN SCORE_TARGET ELSE SCORE_NON_TARGET), 0)
        ELSE g.scores[p]]

\* the time penalty charged to the tagger instead of the tagged player
TagScoresPriorTarget(scores, userId, tagTarget, timeSinceLastAction) ==
    LET s1 == [scores EXCEPT ![userId] =
                  Max(GetScore(scores, userId)
                      + FloorTagger(timeSinceLastAction), 0)]
    IN  [s1 EXCEPT ![userId] =
                  Max(GetScore(s1, userId)
                      + FloorTagged(timeSinceLastAction), 0)]

\* the two scores.set calls of a successful tag, in program order
TagScores(scores, userId, tagTarget, timeSinceLastAction) ==
    LET s1 == [scores EXCEPT ![userId] =
                  Max(GetScore(scores, userId)
                      + FloorTagger(timeSinceLastAction), 0)]
    IN  [s1 EXCEPT ![tagTarget] =
                  Max(GetScore(s1, tagTarget)
                      + FloorTagged(timeSinceLastAction), 0)]

\* first revision (/game-tag): the timestamp is not updated by a tag
TaggedNoTimestamp(g, userId, tagTarget, timeSinceLastAction) ==
    [g EXCEPT !.scores = TagScores(g.scores, userId, tagTarget,
                                   timeSinceLastAction)]

\* tagAnotherPlayer once the cooldown test has passed, without its save
Tagged(g, userId, tagTarget, timeSinceLastAction) ==
    [g EXCEPT !.lastActionTimestamp = now,
              !.scores = TagScores(g.scores, userId, tagTarget,
                                   timeSinceLastAction)]

\* ----------------------------------------------------------------- Init
Init ==
    /\ game = NoGame
    /\ now = 0
    /\ file = NoFile
    /\ writes = <<>>
    /\ reads = 0
    /\ saves = 0
    /\ stopping = 0
    /\ loaded = NoFile
    /\ lastSaved = NoFile
    /\ listing = NoCall

\* ------------------------------------------------------------- handlers
\* startGame without its test
InProgressNever == FALSE

\* the test `game?.active` of startGame
InProgress == game # NoGame /\ game.active

\* startGame: TagGame.load() then game.start(userId)
startGameResult(userId) ==
    IF InProgress
    THEN Reject("AlreadyInProgress")
    ELSE Result(Start(NewTagGame, userId), "none", TRUE, TRUE)

\* joinGame
joinGameResult(userId) ==
    IF game = NoGame
    THEN Reject("NoSessionInProgress")
    ELSE IF userId \notin game.players
    THEN Result(Join(game, userId), "none", TRUE, FALSE)
    ELSE Reject("AlreadyJoined")

\* stopGame without the test `userId !== game.host`
stopGameAnyRequester(userId) ==
    IF game = NoGame
    THEN Reject("NoSessionInProgress")
    ELSE Result(Stop(game), "Stopped", TRUE, FALSE)

\* stopGame
stopGameResult(userId) ==
    IF game = NoGame
    THEN Reject("NoSessionInProgress")
    ELSE IF userId # game.host
    THEN Reject("NotHost")
    ELSE Result(Stop(game), "Stopped", TRUE, FALSE)

\* leaveGame with the first revision's TagGame.leave, which also deletes
\* the leaver's score
leaveGameDeletesScore(userId) ==
    IF game = NoGame
    THEN Reject("NoSessionInProgress")
    ELSE IF userId \notin game.players
    THEN Reject("NotInSession")
    ELSE IF game.target = userId
    THEN Reject("CannotLeaveWhileTarget")
    ELSE Result([game EXCEPT !.players = @ \ {userId},
                             !.scores = [@ EXCEPT ![userId] = NoScore]],
                "Left", FALSE, FALSE)

\* leaveGame, with TagGame.leave inlined
leaveGameResult(userId) ==
    IF game = NoGame
    THEN Reject("NoSessionInProgress")
    ELSE IF userId \notin game.players
    THEN Reject("NotInSession")
    ELSE IF game.target = userId
    THEN Reject("CannotLeaveWhileTarget")
    ELSE IF game.players \ {userId} = {}
    THEN Result(Stop([game EXCEPT !.players = @ \ {userId}]),
                "Left", TRUE, FALSE)
    ELSE Result([game EXCEPT !.players = @ \ {userId}],
                "Left", FALSE, FALSE)

\* tagAnotherPlayer with its tests made on the session as it was before a
\* suspension and its assignments made to the session g found afterwards
tagAnotherPlayerStale(g, userId, tagTarget) ==
    IF game = NoGame
    THEN Result(g, "NoSessionInProgress", FALSE, FALSE)
    ELSE IF tagTarget = Empty
    THEN Result(g, "NoTargetSpecified", FALSE, FALSE)
    ELSE IF userId \notin game.players
    THEN Result(g, "ActorNotInSession", FALSE, FALSE)
    ELSE IF userId # game.target
    THEN Result(g, "ActorNotIt", FALSE, FALSE)
    ELSE IF tagTarget \notin game.players
    THEN Result(g, "TargetNotInSession", FALSE, FALSE)
    ELSE IF userId = tagTarget
    THEN Result(g, "SelfTagForbidden", FALSE, FALSE)
    ELSE LET timeSinceLastAction ==
                 FloorDiv(now - game.lastActionTimestamp, TIME_UNIT)
             tagged == [g EXCEPT !.target = tagTarget]
         IN  IF timeSinceLastAction < COOLDOWN
             THEN Result(tagged, "CooldownActive", FALSE, FALSE)
             ELSE Result(Tagged(tagged, userId, tagTarget,
                                timeSinceLastAction),
                         "none", TRUE, FALSE)

\* tagAnotherPlayer entered with the session g
tagAnotherPlayerFrom(g, userId, tagTarget) ==
    IF g = NoGame
    THEN Result(g, "NoSessionInProgress", FALSE, FALSE)
    ELSE IF tagTarget = Empty
    THEN Result(g, "NoTargetSpecified", FALSE, FALSE)
    ELSE IF userId \notin g.players
    THEN Result(g, "ActorNotInSession", FALSE, FALSE)
    ELSE IF userId # g.target
    THEN Result(g, "ActorNotIt", FALSE, FALSE)
    ELSE IF tagTarget \notin g.players
    THEN Result(g, "TargetNotInSession", FALSE, FALSE)
    ELSE IF userId = tagTarget
    THEN Result(g, "SelfTagForbidden", FALSE, FALSE)
    ELSE LET timeSinceLastAction ==
                 FloorDiv(now - g.lastActionTimestamp, TIME_UNIT)
             tagged == [g EXCEPT !.target = tagTarget]
         IN  IF timeSinceLastAction < COOLDOWN
             THEN Result(tagged, "CooldownActive", FALSE, FALSE)
             ELSE Result(Tagged(tagged, userId, tagTarget,
                                timeSinceLastAction),
                         "none", TRUE, FALSE)

\* tagAnotherPlayer
tagAnotherPlayerResult(userId, tagTarget) ==
    tagAnotherPlayerFrom(game, userId, tagTarget)

\* a handler runs: its result becomes the state
Apply(r) ==
    /\ r.save => CanSave
    /\ r.load => CanLoad
    /\ game' = r.game
    /\ IF r.save THEN Save(r.game) ELSE UNCHANGED <<writes, saves, lastSaved>>
    /\ IF r.load THEN Load ELSE UNCHANGED <<reads, loaded>>
    /\ UNCHANGED <<now, file, stopping, listing>>

startGame(userId) == Apply(startGameResult(userId))

joinGame(userId) == Apply(joinGameResult(userId))

stopGame(userId) == Apply(stopGameResult(userId))

leaveGame(userId) == Apply(leaveGameResult(userId))

tagAnotherPlayer(userId, tagTarget) ==
    Apply(tagAnotherPlayerResult(userId, tagTarget))

\* app.event("message") for a regular message in a public channel
messageEventResult ==
    IF game = NoGame
    THEN Reject("none")
    ELSE Result([game EXCEPT !.scores = TickScores(game)],
                "none", FALSE, FALSE)

\* givePoints, the SCORE_INTERVAL timer
givePointsResult ==
    IF game = NoGame \/ ~game.active
    THEN Reject("none")
    ELSE Result([game EXCEPT !.scores = TickScores(game),
                             !.lastActionTimestamp = now],
                "none", TRUE, FALSE)

\* the scores a handler leaves stay within the score bound
WithinMaxScore(r) ==
    r.game # NoGame => \A p \in Players : r.game.scores[p] <= MaxScore

messageEvent ==
    /\ WithinMaxScore(messageEventResult)
    /\ Apply(messageEventResult)

givePoints ==
    /\ WithinMaxScore(givePointsResult)
    /\ Apply(givePointsResult)

\* the AUTOSAVE_INTERVAL timer
autosave ==
    /\ game # NoGame
    /\ game.active
    /\ CanSave
    /\ Save(game)
    /\ UNCHANGED <<game, now, file, reads, stopping, loaded, listing>>

\* callback of fs.writeFile: the i-th write in flight reaches the file
writeFileDone(i) ==
    /\ i \in 1..Len(writes)
    /\ file' = writes[i]
    /\ writes' = [j \in 1..(Len(writes) - 1) |->
                     IF j < i THEN writes[j] ELSE writes[j + 1]]
    /\ UNCHANGED <<game, now, reads, saves, stopping, loaded, lastSaved,
                   listing>>

\* callback of fs.readFile in TagGame.load: restores the global `game`
readFileDone ==
    /\ reads > 0
    /\ file # NoFile
    /\ game' = Restore(game, file)
    /\ reads' = reads - 1
    /\ loaded' = IF reads = 1 THEN NoFile ELSE loaded
    /\ UNCHANGED <<now, file, writes, saves, stopping, lastSaved, listing>>

\* the clock advances
advance(d) ==
    /\ now + d <= MaxTime
    /\ now' = now + d
    /\ UNCHANGED <<game, file, writes, reads, saves, stopping, loaded,
                   lastSaved, listing>>

Next ==
    \/ \E u \in Players : startGame(u)
    \/ \E u \in Players : joinGame(u)
    \/ \E u \in Players : stopGame(u)
    \/ \E u \in Players : leaveGame(u)
    \/ \E u \in Players, t \in Players \cup {Empty} : tagAnotherPlayer(u, t)
    \/ messageEvent
    \/ givePoints
    \/ autosave
    \/ \E i \in 1..MaxPending : writeFileDone(i)
    \/ readFileDone
    \/ \E d \in Deltas : advance(d)

Spec == Init /\ [][Next]_vars

\* ================================ first revision (src/games.ts lines 1-217)
\* The /playgame and /game-tag commands and the message.channels handler
\* work on `let game: Game | null = null`; nothing is saved or loaded.
\* TagGame.leave of this revision (lines 55-70) is never called: /playgame
\* leave deletes from game.players itself.

\* new TagGame(channel)
V1NewTagGame ==
    [players |-> {},
     scores |-> [p \in Players |-> NoScore],
     host |-> null,
     active |-> FALSE,
     target |-> null,
     lastActionTimestamp |-> now]

\* TagGame.start
V1Start(g, startingPlayer) ==
    [g EXCEPT !.host = startingPlayer,
              !.players = @ \cup {startingPlayer},
              !.active = TRUE]

\* TagGame.join
V1Join(g, player) ==
    [g EXCEPT !.players = @ \cup {player},
              !.scores = [@ EXCEPT ![player] = 0]]

\* TagGame.stop
V1Stop(g) ==
    [g EXCEPT !.players = {},
              !.scores = [p \in Players |-> NoScore],
              !.host = null,
              !.active = FALSE,
              !.target = null]

\* values of command.text.split(" ")[1]?.trim()
GameIds == {"tag", Empty, "undefined"}

\* /playgame start
playgameStartResult(userId, gameId) ==
    IF game # NoGame
    THEN Reject("AlreadyInProgress")
    ELSE IF gameId = "tag"
    THEN Result(V1Start(V1NewTagGame, userId), "Started", FALSE, FALSE)
    ELSE IF gameId = Empty
    THEN Reject("SpecifyGameType")
    ELSE Reject("UnknownGameType")

\* /playgame join
playgameJoinResult(userId) ==
    IF game = NoGame
    THEN Reject("NoSessionInProgress")
    ELSE IF userId \notin game.players
    THEN Result(V1Join(game, userId), "Joined", FALSE, FALSE)
    ELSE Reject("AlreadyJoined")

\* /playgame stop up to its `await client.chat.postMessage`, entered with
\* the session g
playgameStopFrom(g, userId) ==
    IF g = NoGame
    THEN Result(g, "NoSessionInProgress", FALSE, FALSE)
    ELSE IF userId # g.host
    THEN Result(g, "NotHost", FALSE, FALSE)
    ELSE Result(V1Stop(g), "Stopped", FALSE, FALSE)

\* /playgame stop
playgameStopResult(userId) == playgameStopFrom(game, userId)

\* /playgame leave: falls through to `case "stop"` when no player is left
playgameLeaveResult(userId) ==
    IF game = NoGame
    THEN Reject("NoSessionInProgress")
    ELSE IF userId \notin game.players
    THEN Reject("NotInSession")
    ELSE LET left == [game EXCEPT !.players = @ \ {userId}]
         IN  IF left.players # {}
             THEN Result(left, "Left", FALSE, FALSE)
             ELSE playgameStopFrom(left, userId)

\* /game-tag once the cooldown test has passed
V1Tagged(g, userId, tagTarget, timeSinceLastAction) ==
    [g EXCEPT !.scores = TagScores(g.scores, userId, tagTarget,
                                   timeSinceLastAction)]

\* /game-tag
gameTagResult(userId, tagTarget) ==
    IF game = NoGame
    THEN Reject("NoSessionInProgress")
    ELSE IF tagTarget = Empty
    THEN Reject("NoTargetSpecified")
    ELSE IF userId \notin game.players
    THEN Reject("ActorNotInSession")
    ELSE IF userId # game.target
    THEN Reject("ActorNotIt")
    ELSE IF tagTarget \notin game.players
    THEN Reject("TargetNotInSession")
    ELSE IF userId = tagTarget
    THEN Reject("SelfTagForbidden")
    ELSE LET timeSinceLastAction ==
                 FloorDiv(now - game.lastActionTimestamp, TIME_UNIT)
             tagged == [game EXCEPT !.target = tagTarget]
         IN  IF timeSinceLastAction < COOLDOWN
             THEN Result(tagged, "CooldownActive", FALSE, FALSE)
             ELSE Result(V1Tagged(tagged, userId, tagTarget,
                                  timeSinceLastAction),
                         "none", FALSE, FALSE)

\* app.event("message.channels") for a regular message
messageChannelsResult ==
    IF game = NoGame
    THEN Reject("none")
    ELSE Result([game EXCEPT !.scores = TickScores(game)],
                "none", FALSE, FALSE)

\* a first-revision handler runs up to its first await after the last
\* access to `game`; a handler that stopped the session is left suspended
\* before its `game = null`
ApplyPlaygame(r) ==
    /\ game' = r.game
    /\ stopping' = IF r.reply = "Stopped" THEN stopping + 1 ELSE stopping
    /\ UNCHANGED <<now, file, writes, reads, saves, loaded, lastSaved,
                   listing>>

playgameStart(userId, gameId) ==
    ApplyPlaygame(playgameStartResult(userId, gameId))

playgameJoin(userId) == ApplyPlaygame(playgameJoinResult(userId))

playgameLeave(userId) == ApplyPlaygame(playgameLeaveResult(userId))

playgameStop(userId) == ApplyPlaygame(playgameStopResult(userId))

gameTag(userId, tagTarget) == ApplyPlaygame(gameTagResult(userId, tagTarget))

messageChannels ==
    /\ WithinMaxScore(messageChannelsResult)
    /\ ApplyPlaygame(messageChannelsResult)

\* the suspended /playgame stop resumes: `game = null`
playgameStopDone ==
    /\ stopping > 0
    /\ game' = NoGame
    /\ stopping' = stopping - 1
    /\ UNCHANGED <<now, file, writes, reads, saves, loaded, lastSaved,
                   listing>>

NextPlaygame ==
    \/ \E u \in Players, id \in GameIds : playgameStart(u, id)
    \/ \E u \in Players : playgameJoin(u)
    \/ \E u \in Players : playgameLeave(u)
    \/ \E u \in Players : playgameStop(u)
    \/ \E u \in Players, t \in Players \cup {Empty} : gameTag(u, t)
    \/ messageChannels
    \/ playgameStopDone
    \/ \E d \in Deltas : advance(d)

SpecPlaygame == Init /\ [][NextPlaygame]_vars

\* ============================================ getAllMembers (src/index.ts)
\* One call of getAllMembers(client, presence).  `listing` holds its local
\* variables and what the Slack API answers: users, the members users.list
\* returns (one page: PAGE_SIZE is 500), and presenceOf, the presence
\* users.getPresence reports for each of them.

\* the check `allMembers.length > 50`
PRESENCE_LIMIT == 50

\* member ids
Members == 1..MaxMembers

\* the lists users.list may return: distinct members, in any order
Directories ==
    UNION {{d \in [1..n -> Members] :
               \A i \in 1..n, j \in 1..n : d[i] = d[j] => i = j} :
           n \in 0..MaxMembers}

\* the `presence` argument; "undefined" when it is omitted
PresenceArgs == {"active", "away", "undefined"}

\* allMembers.indexOf(member), counted from 1
IndexOf(array, member) ==
    CHOOSE i \in 1..Len(array) :
        array[i] = member /\ \A j \in 1..(i - 1) : array[j] # member

\* allMembers.splice(i, 1) with i counted from 1
Splice(array, i) ==
    [j \in 1..(Len(array) - 1) |-> IF j < i THEN array[j] ELSE array[j + 1]]

InitMembers ==
    /\ game = NoGame
    /\ now = 0
    /\ file = NoFile
    /\ writes = <<>>
    /\ reads = 0
    /\ saves = 0
    /\ stopping = 0
    /\ loaded = NoFile
    /\ lastSaved = NoFile
    /\ \E d \in Directories, f \in [Members -> {"active", "away"}],
          a \in PresenceArgs :
          listing = [pc |-> "fetch", users |-> d, presenceOf |-> f,
                     presence |-> a, allMembers |-> <<>>, index |-> 0]

\* the do-while loop over client.users.list: one page, cursor empty
usersList ==
    /\ listing.pc = "fetch"
    /\ listing' = [listing EXCEPT
          !.allMembers = listing.users,
          !.pc = IF listing.presence = "undefined" THEN "return"
                 ELSE IF Len(listing.users) > PRESENCE_LIMIT THEN "throw"
                 ELSE "filter"]
    /\ UNCHANGED <<game, now, file, writes, reads, saves, stopping, loaded,
                   lastSaved>>

\* one round of `for (const member of allMembers)`: the array iterator
\* hands out allMembers[index] while index < allMembers.length, the body
\* awaits users.getPresence and splices the member out on a mismatch
getPresence ==
    /\ listing.pc = "filter"
    /\ listing.index < Len(listing.allMembers)
    /\ LET member == listing.allMembers[listing.index + 1]
       IN  listing' = [listing EXCEPT
              !.allMembers =
                  IF listing.presenceOf[member] # listing.presence
                  THEN Splice(@, IndexOf(@, member))
                  ELSE @,
              !.index = @ + 1]
    /\ UNCHANGED <<game, now, file, writes, reads, saves, stopping, loaded,
                   lastSaved>>

\* the iterator is exhausted, or no filter was asked for: return allMembers
returnMembers ==
    /\ \/ listing.pc = "return"
       \/ /\ listing.pc = "filter"
          /\ listing.index >= Len(listing.allMembers)
    /\ listing' = [listing EXCEPT !.pc = "done"]
    /\ UNCHANGED <<game, now, file, writes, reads, saves, stopping, loaded,
                   lastSaved>>

NextMembers ==
    \/ usersList
    \/ getPresence
    \/ returnMembers

SpecMembers == InitMembers /\ [][NextMembers]_vars

\* =============================================================== claims
\* score read as the code reads it: a missing entry counts as 0
Old(scores, p) == IF scores[p] = NoScore THEN 0 ELSE scores[p]

\* the snapshot a handler that saves hands to fs.writeFile
Snapshot(r) ==
    [players |-> r.game.players, scores |-> r.game.scores,
     target |-> r.game.target,
     lastActionTimestamp |-> r.game.lastActionTimestamp]

\* C1: a tag rejected with CooldownActive leaves the whole session state
\* unchanged (players, scores, host, active, target, lastActionTimestamp);
\* in particular the target is still the actor.
C1_CooldownRejectUnchanged ==
    \A u \in Players, t \in Players :
        LET r == tagAnotherPlayerResult(u, t)
        IN  r.reply = "CooldownActive" => (r.game = game /\ r.game.target = u)

\* the reply the tag preconditions of the specification prescribe, first
\* violated precondition first; "none" when the tag is accepted
C2_Expected(userId, tagTarget) ==
    IF game = NoGame \/ ~game.active THEN "NoSessionInProgress"
    ELSE IF tagTarget = "" THEN "NoTargetSpecified"
    ELSE IF userId \notin game.players THEN "ActorNotInSession"
    ELSE IF userId # game.target THEN "ActorNotIt"
    ELSE IF tagTarget \notin game.players THEN "TargetNotInSession"
    ELSE IF userId = tagTarget THEN "SelfTagForbidden"
    ELSE IF (now - game.lastActionTimestamp) \div 5 < 5 THEN "CooldownActive"
    ELSE "none"

\* C2: for every session state and every pair (actor, targetCandidate) the
\* tag is accepted iff all preconditions hold, and otherwise answers with
\* the error of the first violated precondition in the order no session,
\* no candidate, actor not a member, actor not it, candidate not a member,
\* self tag, cooldown.
C2_FirstViolatedPrecondition ==
    \A u \in Players, t \in Players \cup {""} :
        tagAnotherPlayerResult(u, t).reply = C2_Expected(u, t)

\* all tag preconditions but the cooldown hold for (userId, tagTarget)
C3_OtherPreconditions(userId, tagTarget) ==
    /\ game # NoGame
    /\ tagTarget # ""
    /\ userId \in game.players
    /\ userId = game.target
    /\ tagTarget \in game.players
    /\ userId # tagTarget

C4_TagEffect ==
    \A u \in Players, t \in Players \cup {""} :
        LET r == tagAnotherPlayerResult(u, t)
        IN  r.reply = "none" =>
               /\ r.game.target = t
               /\ r.game.lastActionTimestamp = now
               /\ r.save
               /\ t \in r.game.players
               /\ t # u
               /\ r.game.players = game.players
               /\ r.game.host = game.host
               /\ r.game.active = game.active

\* a tag has been accepted at time 25 in a session whose snapshot on file
\* predates the tag: the new target is a member other than the host, the
\* timestamp is the time of the tag, no score has moved (so no tick ran)
\* and the save of exactly this state is in flight
C4_Witness ==
    /\ game # NoGame
    /\ game.active
    /\ now = 25
    /\ game.lastActionTimestamp = 25
    /\ game.target \in game.players \ {game.host}
    /\ \A p \in game.players : game.scores[p] = 0
    /\ file # NoFile
    /\ file.target = game.host
    /\ file.lastActionTimestamp = 0
    /\ Len(writes) = 1
    /\ writes[1] = GameData(game)

\* elapsed time units at a tag: floor((now - lastActionTimestamp) / 5)
C5_Elapsed == (now - game.lastActionTimestamp) \div 5

\* max(0, x)
C5_Clamp(x) == IF x < 0 THEN 0 ELSE x

\* C5 as stated: on an accepted tag the actor's score becomes
\* max(0, old + floor(elapsed * 0.1)), the prior target's score becomes
\* max(0, old + floor(elapsed * -0.1)), and every other score, the newly
\* tagged player's included, is unchanged.
C5_PriorTargetPenalised ==
    \A u \in Players, t \in Players :
        LET r == tagAnotherPlayerResult(u, t)
            prior == game.target
        IN  r.reply = "none" =>
               /\ r.game.scores[u] =
                     C5_Clamp(Old(game.scores, u) + C5_Elapsed \div 10)
               /\ r.game.scores[prior] =
                     C5_Clamp(Old(game.scores, prior)
                              - ((C5_Elapsed + 9) \div 10))
               /\ \A p \in Players \ {u, prior} :
                     r.game.scores[p] = game.scores[p]

\* C5 amended: on an accepted tag the actor's score becomes
\* max(0, old + floor(elapsed * 0.1)), the newly tagged player's score
\* becomes max(0, old + floor(elapsed * -0.1)), and the score of every
\* other player is unchanged.
C5_TaggedPenalised ==
    \A u \in Players, t \in Players :
        LET r == tagAnotherPlayerResult(u, t)
        IN  r.reply = "none" =>
               /\ r.game.scores[u] =
                     C5_Clamp(Old(game.scores, u) + C5_Elapsed \div 10)
               /\ r.game.scores[t] =
                     C5_Clamp(Old(game.scores, t)
                              - ((C5_Elapsed + 9) \div 10))
               /\ \A p \in Players \ {u, t} :
                     r.game.scores[p] = game.scores[p]

\* a tag is accepted with elapsed = 10 in an active session of three
\* members: the tagger gains a point, the tagged player loses the point it
\* had, and the third member has a point that stays
C5_Witness ==
    /\ game # NoGame
    /\ game.active
    /\ Cardinality(game.players) = 3
    /\ \E u \in Players, t \in Players :
          LET r == tagAnotherPlayerResult(u, t)
          IN  /\ r.reply = "none"
              /\ C5_Elapsed = 10
              /\ r.game.scores[u] = game.scores[u] + 1
              /\ game.scores[t] = 1
              /\ r.game.scores[t] = 0
              /\ \E p \in game.players \ {u, t} :
                    game.scores[p] = 1 /\ r.game.scores[p] = 1

\* C6: when start(founder) is accepted (no session active) the session has
\* founder in players, host = founder, target = founder, active = true,
\* lastActionTimestamp = now, and a save of that state is issued.
C6_StartEffect ==
    \A u \in Players :
        LET r == startGameResult(u)
        IN  ~(game # NoGame /\ game.active) =>
               /\ r.reply = "none"
               /\ u \in r.game.players
               /\ r.game.host = u
               /\ r.game.target = u
               /\ r.game.active = TRUE
               /\ r.game.lastActionTimestamp = now
               /\ r.save

\* the second start of a run has just been accepted, after a stop: the
\* founder is host, target and only member, the timestamp is the time of
\* the start and the save of exactly this state is in flight
C6_Witness ==
    /\ game # NoGame
    /\ game.active
    /\ game.host = game.target
    /\ game.players = {game.host}
    /\ game.lastActionTimestamp = now
    /\ now > 0
    /\ file # NoFile
    /\ file.players = <<>>
    /\ saves = 3
    /\ Len(writes) = 1
    /\ writes[1] = GameData(game)

\* C7: a start requested while a session is active fails with
\* AlreadyInProgress and leaves players, scores, host, active, target and
\* lastActionTimestamp of the session unchanged.
C7_StartWhileActive ==
    \A u \in Players :
        LET r == startGameResult(u)
        IN  (game # NoGame /\ game.active) =>
               /\ r.reply = "AlreadyInProgress"
               /\ r.game = game
               /\ ~r.save
               /\ ~r.load

\* an active session with two members, in which every start is answered
\* with AlreadyInProgress
C7_Witness ==
    /\ game # NoGame
    /\ game.active
    /\ Cardinality(game.players) >= 2
    /\ \A u \in Players : startGameResult(u).reply = "AlreadyInProgress"

\* C8: in every reachable state target is null exactly when active is
\* false.
C8_TargetNullIffInactive ==
    game # NoGame => ((game.target = "null") <=> ~game.active)

\* C9: whenever active is true the target is a member of players.
C9_TargetIsMember ==
    (game # NoGame /\ game.active) => game.target \in game.players

\* C10: host is either null or a member of players; when the host leaves
\* a session that still has members, the host afterwards is one of them.
C10_HostIsMember ==
    game # NoGame => (game.host = "null" \/ game.host \in game.players)

\* every entry of a score map is absent or at least 0
C11_NonNegative(scores) ==
    \A p \in Players : scores[p] = NoScore \/ scores[p] >= 0

\* C11: after any sequence of start, join, leave, tag, message ticks,
\* interval ticks and stop every value in scores is >= 0, and every score
\* update (message tick, interval tick, tag) leaves it so; a target with
\* score 3 that receives the -5 penalty twice ends at 0.
C11_ScoreFloor ==
    game # NoGame =>
       /\ C11_NonNegative(game.scores)
       /\ C11_NonNegative(messageEventResult.game.scores)
       /\ C11_NonNegative(givePointsResult.game.scores)
       /\ \A u \in Players, t \in Players :
             C11_NonNegative(tagAnotherPlayerResult(u, t).game.scores)
       /\ game.target \in game.players =>
             LET g3 == [game EXCEPT !.scores[game.target] = 3]
                 once == [g3 EXCEPT !.scores = TickScores(g3)]
                 twice == [once EXCEPT !.scores = TickScores(once)]
             IN  /\ once.scores[game.target] = 0
                 /\ twice.scores[game.target] = 0

\* an interval tick has just run at time 25 in an active session: the
\* target's 0 - 5 was raised to 0 while another member earned its point,
\* and the save of that state is in flight
C11_Witness ==
    /\ game # NoGame
    /\ game.active
    /\ now = 25
    /\ game.lastActionTimestamp = 25
    /\ game.target \in game.players
    /\ game.scores[game.target] = 0
    /\ \E p \in game.players \ {game.target} : game.scores[p] = 1
    /\ Len(writes) = 1
    /\ writes[1] = GameData(game)

\* C12: stop(requester) on an active session succeeds iff requester is the
\* current host; a stop by any other player fails with NotHost and leaves
\* the session state unchanged.
C12_StopOnlyByHost ==
    (game # NoGame /\ game.active) =>
        \A u \in Players :
            LET r == stopGameResult(u)
                succeeds == /\ r.reply = "Stopped"
                            /\ ~r.game.active
                            /\ r.game.players = {}
                            /\ r.save
            IN  /\ (u = game.host) <=> succeeds
                /\ (u # game.host) =>
                       /\ r.reply = "NotHost"
                       /\ r.game = game
                       /\ ~r.save

\* an active session of three members with the host among them: the host's
\* stop is about to succeed and the stop of each of the two others is about
\* to be answered with NotHost
C12_Witness ==
    /\ game # NoGame
    /\ game.active
    /\ Cardinality(game.players) = 3
    /\ game.host \in game.players
    /\ stopGameResult(game.host).reply = "Stopped"
    /\ \A u \in game.players \ {game.host} :
          stopGameResult(u).reply = "NotHost"

\* C13: after a successful stop by the host all session state is cleared:
\* players empty, scores empty, host null, target null, active false.
C13_StopClearsAll ==
    \A u \in Players :
        LET r == stopGameResult(u)
        IN  r.reply = "Stopped" =>
               /\ r.game.players = {}
               /\ \A p \in Players : r.game.scores[p] = NoScore
               /\ r.game.host = "null"
               /\ r.game.target = "null"
               /\ r.game.active = FALSE

\* C14: whenever no session is active (never started, or already stopped)
\* join, leave, tag and stop each fail with NoSessionInProgress for every
\* caller and change nothing, so no player is added to players.
C14_NoSessionInProgress ==
    (game = NoGame \/ ~game.active) =>
        \A u \in Players, t \in Players \cup {""} :
            /\ joinGameResult(u).reply = "NoSessionInProgress"
            /\ joinGameResult(u).game = game
            /\ leaveGameResult(u).reply = "NoSessionInProgress"
            /\ leaveGameResult(u).game = game
            /\ tagAnotherPlayerResult(u, t).reply = "NoSessionInProgress"
            /\ tagAnotherPlayerResult(u, t).game = game
            /\ stopGameResult(u).reply = "NoSessionInProgress"
            /\ stopGameResult(u).game = game

\* C15: in an active session whose only player is its host, the host's
\* leave is accepted and leaves the session inactive; and in a session that
\* is inactive a join fails with NoSessionInProgress.
C15_LastPlayerLeaves ==
    /\ (game # NoGame /\ game.active /\ game.players = {game.host}) =>
           LET r == leaveGameResult(game.host)
           IN  /\ r.reply = "Left"
               /\ r.game.players = {}
               /\ ~r.game.active
    /\ (game # NoGame /\ ~game.active) =>
           \A u \in Players : joinGameResult(u).reply = "NoSessionInProgress"

\* C16: in the /playgame revision a session that exists has at least one
\* player: when the last remaining player leaves, host or not, the session
\* is torn down (and becomes absent once the handler resumes), so that a
\* later start is accepted.
C16_LastLeaveTearsDown ==
    /\ (game # NoGame /\ stopping = 0) => game.players # {}
    /\ game # NoGame =>
          \A u \in Players :
              game.players = {u} => playgameLeaveResult(u).reply = "Stopped"

\* C17: in the persistent revision, on an active session, leave by the
\* member who is the target is rejected with CannotLeaveWhileTarget and
\* leaves players, target, host and scores unchanged; leave by a non-member
\* is rejected with NotInSession; leave by any other member removes exactly
\* that player from players and changes no score, target or
\* lastActionTimestamp.
C17_LeaveCases ==
    (game # NoGame /\ game.active) =>
        \A u \in Players :
            LET r == leaveGameResult(u)
            IN  /\ (u \in game.players /\ u = game.target) =>
                       /\ r.reply = "CannotLeaveWhileTarget"
                       /\ r.game = game
                       /\ ~r.save
                /\ u \notin game.players =>
                       /\ r.reply = "NotInSession"
                       /\ r.game = game
                       /\ ~r.save
                /\ (u \in game.players /\ u # game.target) =>
                       /\ r.reply = "Left"
                       /\ r.game.players = game.players \ {u}
                       /\ r.game.scores = game.scores
                       /\ r.game.target = game.target
                       /\ r.game.lastActionTimestamp =
                             game.lastActionTimestamp

\* an active session of two members and one outsider: the target's leave
\* is about to be refused, the outsider's leave is about to be answered
\* with NotInSession, and the other member, who holds a point, is about to
\* leave and keep that point
C17_Witness ==
    /\ game # NoGame
    /\ game.active
    /\ Cardinality(game.players) = 2
    /\ game.target \in game.players
    /\ leaveGameResult(game.target).reply = "CannotLeaveWhileTarget"
    /\ \E u \in Players \ game.players :
          leaveGameResult(u).reply = "NotInSession"
    /\ \E u \in game.players \ {game.target} :
          /\ game.scores[u] = 1
          /\ leaveGameResult(u).reply = "Left"
          /\ leaveGameResult(u).game.players = {game.target}
          /\ leaveGameResult(u).game.scores[u] = 1

\* C18: join(player) on an active session: if player is already a member
\* it fails with AlreadyJoined and changes nothing; otherwise it adds
\* exactly player to players and sets scores[player] = 0 only if player has
\* no score entry, so a player who left and joins again keeps the score
\* they had; no other player's membership or score changes.
C18_JoinEffect ==
    (game # NoGame /\ game.active) =>
        \A u \in Players :
            LET r == joinGameResult(u)
            IN  /\ u \in game.players =>
                       /\ r.reply = "AlreadyJoined"
                       /\ r.game = game
                       /\ ~r.save
                /\ u \notin game.players =>
                       /\ r.reply = "none"
                       /\ r.game.players = game.players \cup {u}
                       /\ r.game.scores[u] =
                             (IF game.scores[u] = NoScore
                              THEN 0 ELSE game.scores[u])
                       /\ \A p \in Players \ {u} :
                             r.game.scores[p] = game.scores[p]
                       /\ r.game.host = game.host
                       /\ r.game.target = game.target
                       /\ r.game.active = game.active
                       /\ r.game.lastActionTimestamp =
                             game.lastActionTimestamp
                       /\ r.save

\* an active session in which a player who earned a point and then left is
\* about to join again and keep the point, a player who never joined is
\* about to join with score 0, and the remaining member's join is about to
\* be answered with AlreadyJoined
C18_Witness ==
    /\ game # NoGame
    /\ game.active
    /\ \E u \in Players \ game.players :
          /\ game.scores[u] = 1
          /\ joinGameResult(u).reply = "none"
          /\ u \in joinGameResult(u).game.players
          /\ joinGameResult(u).game.scores[u] = 1
    /\ \E u \in Players \ game.players :
          /\ game.scores[u] = NoScore
          /\ joinGameResult(u).game.scores[u] = 0
    /\ \E u \in game.players : joinGameResult(u).reply = "AlreadyJoined"

\* C19: one message tick on an active session changes each member's score
\* to max(0, old + 1) if the member is not the target and to
\* max(0, old - 5) if the member is the target, and changes no score of a
\* non-member, nor players, host, target or lastActionTimestamp; after
\* start(A), join(B), join(C) one message tick gives A = 0, B = 1, C = 1.
C19_MessageTick ==
    (game # NoGame /\ game.active) =>
        LET r == messageEventResult
        IN  /\ \A p \in game.players :
                  r.game.scores[p] =
                     (IF p = game.target
                      THEN C5_Clamp(Old(game.scores, p) - 5)
                      ELSE C5_Clamp(Old(game.scores, p) + 1))
            /\ \A p \in Players \ game.players :
                  r.game.scores[p] = game.scores[p]
            /\ r.game.players = game.players
            /\ r.game.host = game.host
            /\ r.game.target = game.target
            /\ r.game.lastActionTimestamp = game.lastActionTimestamp
            /\ r.game.active = game.active
            /\ ~r.save
            /\ (/\ game.players = {"A", "B", "C"}
                /\ game.target = "A"
                /\ \A p \in game.players : game.scores[p] = 0)
                  => r.game.scores = [p \in {"A", "B", "C"} |->
                                         IF p = "A" THEN 0 ELSE 1]

\* a message tick has just run in the session of start(A), join(B),
\* join(C): A is host and target with score 0, B and C hold 1, and the
\* timestamp is still that of the start although the clock has moved on
C19_Witness ==
    /\ game # NoGame
    /\ game.active
    /\ game.players = {"A", "B", "C"}
    /\ game.host = "A"
    /\ game.target = "A"
    /\ game.scores = [p \in {"A", "B", "C"} |-> IF p = "A" THEN 0 ELSE 1]
    /\ game.lastActionTimestamp = 0
    /\ now = 24
    /\ saves = 3
    /\ file # NoFile
    /\ \A p \in game.players : MapOf(file.scores)[p] = 0

\* C20: a message tick or an interval tick that fires while the session is
\* absent or inactive is a no-op: it changes no score and no other session
\* field, in every reachable state (including after a stop).
C20_TickWhileInactive ==
    (game = NoGame \/ ~game.active) =>
        /\ messageEventResult.game = game
        /\ ~messageEventResult.save
        /\ givePointsResult.game = game
        /\ ~givePointsResult.save

\* the four saved fields of two sessions agree
C21_SameSaved(g, h) ==
    /\ g.players = h.players
    /\ g.scores = h.scores
    /\ g.target = h.target
    /\ g.lastActionTimestamp = h.lastActionTimestamp

\* C21: what save writes, once read back, gives the players, scores, target
\* and lastActionTimestamp that were saved; and whenever the read issued by
\* load can complete, it reconstructs the session that was on file when
\* load ran (the saved session), and the reconstructed session is active.
C21_SaveLoadRoundTrip ==
    /\ game # NoGame => C21_SameSaved(Restore(game, GameData(game)), game)
    /\ (reads > 0 /\ file # NoFile) =>
           /\ C21_SameSaved(Restore(game, file), Restore(game, loaded))
           /\ Restore(game, file).active = TRUE

\* a handler that changes the session saves the session it leaves
C22_Saves(r) == r.game # game => r.save

\* C22: every operation that mutates session state (accepted start, join,
\* leave, tag, stop, message tick, interval tick) issues a save of the
\* post-operation state, and the autosave timer issues a save only while a
\* session is active.
C22_SaveAfterMutation ==
    /\ \A u \in Players, t \in Players \cup {""} :
          /\ C22_Saves(startGameResult(u))
          /\ C22_Saves(joinGameResult(u))
          /\ C22_Saves(stopGameResult(u))
          /\ C22_Saves(leaveGameResult(u))
          /\ (tagAnotherPlayerResult(u, t).reply = "none"
                 => C22_Saves(tagAnotherPlayerResult(u, t)))
    /\ C22_Saves(messageEventResult)
    /\ C22_Saves(givePointsResult)
    /\ (ENABLED autosave) => (game # NoGame /\ game.active)

\* C23: two tag requests issued concurrently against the same session run
\* one after the other, each with its tests and its assignments to target
\* and lastActionTimestamp in one piece: of two requests that would both be
\* accepted in the same pre-state, the one that runs second finds the
\* target and timestamp the first one left, is rejected, and changes
\* nothing, so exactly one is accepted.
C23_TagRace ==
    game # NoGame =>
        \A u1 \in Players, t1 \in Players :
            LET first == tagAnotherPlayerFrom(game, u1, t1)
            IN  first.reply = "none" =>
                   /\ first.game.target = t1
                   /\ first.game.lastActionTimestamp = now
                   /\ \A u2 \in Players, t2 \in Players :
                         LET alone == tagAnotherPlayerFrom(game, u2, t2)
                             second ==
                                 tagAnotherPlayerFrom(first.game, u2, t2)
                         IN  alone.reply = "none" =>
                                /\ second.reply # "none"
                                /\ second.game = first.game
                                /\ ~second.save

\* an active session of three members in which the target can tag either
\* of the two others: each of the two requests would be accepted alone,
\* and whichever runs second is answered with ActorNotIt
C23_Witness ==
    /\ game # NoGame
    /\ game.active
    /\ Cardinality(game.players) = 3
    /\ \E u \in Players, t1 \in Players, t2 \in Players :
          /\ t1 # t2
          /\ tagAnotherPlayerFrom(game, u, t1).reply = "none"
          /\ tagAnotherPlayerFrom(game, u, t2).reply = "none"
          /\ tagAnotherPlayerFrom(tagAnotherPlayerFrom(game, u, t1).game,
                                  u, t2).reply = "ActorNotIt"
          /\ tagAnotherPlayerFrom(tagAnotherPlayerFrom(game, u, t2).game,
                                  u, t1).reply = "ActorNotIt"

\* a handler leaves lastActionTimestamp no smaller than it found it
C24_NotEarlier(r) ==
    r.game # NoGame =>
        r.game.lastActionTimestamp >= game.lastActionTimestamp

\* C24: lastActionTimestamp is the time of the last accepted tag (or of
\* start if none): no step decreases it, an interval tick does not change
\* it, and a tag that is accepted without an intervening interval tick is
\* also accepted, at the same time, after one.
C24_TimestampOfLastTag ==
    (game # NoGame /\ game.active) =>
        /\ givePointsResult.game.lastActionTimestamp =
              game.lastActionTimestamp
        /\ \A u \in Players, t \in Players :
              tagAnotherPlayerFrom(game, u, t).reply = "none" =>
                 tagAnotherPlayerFrom(givePointsResult.game, u, t).reply
                    = "none"
        /\ \A u \in Players, t \in Players \cup {""} :
              /\ C24_NotEarlier(joinGameResult(u))
              /\ C24_NotEarlier(leaveGameResult(u))
              /\ C24_NotEarlier(stopGameResult(u))
              /\ C24_NotEarlier(tagAnotherPlayerResult(u, t))
        /\ C24_NotEarlier(messageEventResult)
        /\ (reads > 0 /\ file # NoFile) =>
              Restore(game, file).lastActionTimestamp
                 >= game.lastActionTimestamp

\* C25: the completion of the snapshot read issued by load inside start,
\* taken as a step of its own that may fire after start and after later
\* operations, never removes the founder or a later joiner from players
\* and never makes target a non-member: whenever it can fire in an active
\* session, every member is still a member afterwards and so are the host
\* and the target.
C25_ReadKeepsMembers ==
    (game # NoGame /\ game.active /\ reads > 0 /\ file # NoFile) =>
        LET after == Restore(game, file)
        IN  /\ game.players \subseteq after.players
            /\ after.host \in after.players
            /\ after.target \in after.players

\* C26: saves of the same session are serialized: when save calls are
\* issued one after the other and their asynchronous writes complete in
\* any order, then once no write is pending the durable snapshot is the
\* state captured by the most recent save, never an older one.
C26_LastSaveWins ==
    (saves > 0 /\ writes = <<>>) => file = lastSaved

\* C27: in the /playgame revision stop is atomic: no request is processed
\* between the clearing of the session's state and the session becoming
\* absent, so no join is accepted into a session that is being stopped
\* (to be discarded with it) and no start is rejected as AlreadyInProgress
\* against a session that has already been cleared.
C27_StopAtomic ==
    stopping > 0 =>
        \A u \in Players :
            /\ playgameJoinResult(u).reply # "Joined"
            /\ playgameStartResult(u, "tag").reply # "AlreadyInProgress"

\* C28: in the /playgame + /game-tag revision the founder becomes the
\* initial target at start, so a successful tag is reachable: after
\* start(A), join(B) and enough elapsed time tag(A, B) is accepted and
\* makes B the target.
C28_FounderIsTarget ==
    /\ \A u \in Players :
          playgameStartResult(u, "tag").reply = "Started" =>
             playgameStartResult(u, "tag").game.target = u
    /\ (/\ game # NoGame
        /\ game.active
        /\ game.host = "A"
        /\ {"A", "B"} \subseteq game.players
        /\ now - game.lastActionTimestamp >= 25) =>
           /\ gameTagResult("A", "B").reply = "none"
           /\ gameTagResult("A", "B").game.target = "B"

\* C29: getAllMembers called with a presence filter returns exactly the
\* fetched members whose presence equals the requested value, in the order
\* fetched: no member with a different presence remains in the result and
\* no member with the requested presence is missing.
C29_PresenceFilter ==
    (listing.pc = "done" /\ listing.presence # "undefined") =>
        LET Wanted(m) == listing.presenceOf[m] = listing.presence
        IN  listing.allMembers = SelectSeq(listing.users, Wanted)

====
